---------------------------- MODULE Spec2Model ----------------------------
(***************************************************************************)
(* DynSLAM DepthProvider (src/src/DynSLAM/DepthProvider.h): the stereo ->  *)
(* disparity -> depth conversion.  DepthFromStereo is modelled step by     *)
(* step (estimator call, allocation, element-type dispatch, per-pixel      *)
(* loop); the arithmetic of DepthFromDisparity is IEEE-754 binary32,       *)
(* modelled exactly on (sign, mantissa, exponent) triples.                 *)
(***************************************************************************)
EXTENDS Integers, Sequences, FiniteSets, TLC

(***************************************************************************)
(* Bounds of the model: the largest image height and width.                *)
(***************************************************************************)
MaxRows == 2
MaxCols == 2

(***************************************************************************)
(* Integer helpers.  All intermediate values stay below 2^31.              *)
(***************************************************************************)
Pow2Table ==
  << 1, 2, 4, 8, 16, 32, 64, 128, 256, 512, 1024, 2048, 4096, 8192, 16384,
     32768, 65536, 131072, 262144, 524288, 1048576, 2097152, 4194304,
     8388608, 16777216, 33554432, 67108864, 134217728, 268435456, 536870912,
     1073741824 >>

\* 2^n for 0 <= n <= 30
Pow2(n) == IF n <= 0 THEN 1 ELSE Pow2Table[n + 1]

\* Number of bits of n
RECURSIVE BitLen(_)
BitLen(n) ==
  IF n <= 0 THEN 0
  ELSE IF n >= 4096 THEN 12 + BitLen(n \div 4096)
  ELSE 1 + BitLen(n \div 2)

Max2(a, b) == IF a >= b THEN a ELSE b

(***************************************************************************)
(* OpenCV element-type codes used by the dispatch of DepthFromStereo.      *)
(***************************************************************************)
CV_8UC1 == 0
CV_16UC1 == 2
CV_16SC1 == 3
CV_32FC1 == 5

(***************************************************************************)
(* Integer widths.                                                         *)
(***************************************************************************)
INT16_MAX == 32767
INT32_MAX == 2147483647
INT32_MIN == -2147483647 - 1

(***************************************************************************)
(* binary32 ("float").  A value is a record                                *)
(*   [k |-> "zero" | "fin" | "inf" | "nan", s |-> 1 | -1, m, e]            *)
(* and a "fin" value is s * m * 2^e with 0 < m < 2^24, m >= 2^23 unless    *)
(* e = F32_EMIN (a subnormal), and e <= F32_EMAX.                          *)
(***************************************************************************)
F32_PREC == 24
F32_EMIN == -149
F32_EMAX == 104

F32Zero(s) == [k |-> "zero", s |-> s, m |-> 0, e |-> 0]
F32Inf(s) == [k |-> "inf", s |-> s, m |-> 0, e |-> 0]
F32NaN == [k |-> "nan", s |-> 1, m |-> 0, e |-> 0]
F32Fin(s, m, e) == [k |-> "fin", s |-> s, m |-> m, e |-> e]

\* int -> float of a value of magnitude below 2^24 (exact): uint16_t -> float
\* at the call DepthFromDisparity(disp, calibration).
F32FromInt(n) ==
  IF n = 0 THEN F32Zero(1)
  ELSE LET a == IF n < 0 THEN -n ELSE n
           sh == F32_PREC - BitLen(a)
       IN F32Fin(IF n < 0 THEN -1 ELSE 1, a * Pow2(sh), -sh)

\* n with its sh low bits dropped, rounded to nearest, ties to even; sticky
\* says that nonzero bits below n were already dropped.  n < 2^31.
RoundShift(n, sticky, sh) ==
  IF sh <= 0 THEN n * Pow2(-sh)
  ELSE IF sh > 31 THEN 0
  ELSE IF sh = 31
  THEN IF n > Pow2(30) \/ (n = Pow2(30) /\ sticky) THEN 1 ELSE 0
  ELSE LET q == n \div Pow2(sh)
           r == n % Pow2(sh)
           half == Pow2(sh - 1)
           up == \/ r > half
                 \/ r = half /\ (sticky \/ q % 2 = 1)
       IN IF up THEN q + 1 ELSE q

\* The binary32 nearest to s * (n + sticky bits) * 2^e, n > 0.
F32Round(s, n, sticky, e) ==
  LET sh == Max2(BitLen(n) - F32_PREC, F32_EMIN - e)
      m == RoundShift(n, sticky, sh)
      m1 == IF m = Pow2(F32_PREC) THEN Pow2(F32_PREC - 1) ELSE m
      e1 == IF m = Pow2(F32_PREC) THEN e + sh + 1 ELSE e + sh
  IN IF m1 = 0 THEN F32Zero(s)
     ELSE IF e1 > F32_EMAX THEN F32Inf(s)
     ELSE F32Fin(s, m1, e1)

\* float * float, as in calibration.baseline_meters * calibration.focal_length_px.
\* The 48-bit product of the mantissas is built from 12-bit limbs as
\* hi * 2^24 + lo.
F32Mul(a, b) ==
  IF a.k = "nan" \/ b.k = "nan" THEN F32NaN
  ELSE IF (a.k = "inf" /\ b.k = "zero") \/ (a.k = "zero" /\ b.k = "inf") THEN F32NaN
  ELSE IF a.k = "inf" \/ b.k = "inf" THEN F32Inf(a.s * b.s)
  ELSE IF a.k = "zero" \/ b.k = "zero" THEN F32Zero(a.s * b.s)
  ELSE LET a1 == a.m \div 4096
           a0 == a.m % 4096
           b1 == b.m \div 4096
           b0 == b.m % 4096
           mid == a1 * b0 + a0 * b1
           l == a0 * b0 + (mid % 4096) * 4096
           lo == l % 16777216
           hi == a1 * b1 + (mid \div 4096) + (l \div 16777216)
           t == BitLen(hi) - 2
       IN IF t > 0
          THEN F32Round(a.s * b.s, hi * Pow2(24 - t) + (lo \div Pow2(t)),
                        lo % Pow2(t) # 0, a.e + b.e + t)
          ELSE F32Round(a.s * b.s, hi * 16777216 + lo, FALSE, a.e + b.e)

\* Long division, six quotient bits at a time, until the quotient has at
\* least 26 bits.  Returns <<quotient, remainder, number of bits shifted in>>.
RECURSIVE DivLoop(_, _, _, _)
DivLoop(q, r, d, n) ==
  IF q >= 33554432 THEN <<q, r, n>>
  ELSE DivLoop(64 * q + ((64 * r) \div d), (64 * r) % d, d, n + 6)

\* float / float, as in (baseline * focal) / disparity_px.
F32Div(a, b) ==
  IF a.k = "nan" \/ b.k = "nan" THEN F32NaN
  ELSE IF (a.k = "inf" /\ b.k = "inf") \/ (a.k = "zero" /\ b.k = "zero") THEN F32NaN
  ELSE IF a.k = "inf" \/ b.k = "zero" THEN F32Inf(a.s * b.s)
  ELSE IF a.k = "zero" \/ b.k = "inf" THEN F32Zero(a.s * b.s)
  ELSE LET d == DivLoop(a.m \div b.m, a.m % b.m, b.m, 0)
       IN F32Round(a.s * b.s, d[1], d[2] # 0, a.e - b.e - d[3])

(***************************************************************************)
(* static_cast<int32_t>(kMetersToMillimeters * DepthFromDisparity(...)).   *)
(* The float is widened to double and multiplied by 1000.0: exact (34      *)
(* significant bits).  The cast truncates toward zero.  When the value is  *)
(* not finite or does not fit int32_t the cast is undefined; cast_build    *)
(* names what the compiled conversion then yields:                         *)
(*   "indefinite": 0x80000000 for every such value (cvttsd2si);            *)
(*   "saturate"  : clamped to INT32_MIN / INT32_MAX, NaN to 0 (fcvtzs);    *)
(*   "wrap"      : converted to a 64-bit integer and cut to its low 32     *)
(*                 bits (fistp qword); outside 64 bits the 64-bit result   *)
(*                 is 0x8000000000000000, whose low word is 0.             *)
(***************************************************************************)
CastBuilds == {"indefinite", "saturate", "wrap"}

kMetersToMillimeters == 1000

\* 2 * x in 32-bit two's complement.
Dbl32(x) ==
  IF x >= 1073741824 THEN (x - 1073741824 - 1073741824) * 2
  ELSE IF x < -1073741824 THEN (x + 1073741824 + 1073741824) * 2
  ELSE 2 * x

RECURSIVE ShiftLeft32(_, _)
ShiftLeft32(x, t) == IF t <= 0 \/ x = 0 THEN x ELSE ShiftLeft32(Dbl32(x), t - 1)

Neg32(x) == IF x = INT32_MIN THEN INT32_MIN ELSE -x

\* The undefined cast of s * a * 2^t (a = 125 * mantissa, t >= 1), or of an
\* infinity or NaN.
CastOutOfRange(build, k, s, a, t) ==
  CASE build = "indefinite" -> INT32_MIN
    [] build = "saturate" ->
         IF k = "nan" THEN 0 ELSE IF s = 1 THEN INT32_MAX ELSE INT32_MIN
    [] OTHER ->
         IF k # "fin" \/ t >= 32 THEN 0
         ELSE IF s = 1 THEN ShiftLeft32(a, t) ELSE Neg32(ShiftLeft32(a, t))

\* Variant: the cast rounding to the nearest integer instead of truncating.
StaticCastNearest(q, build) ==
  IF q.k = "zero" THEN 0
  ELSE IF q.k = "fin" /\ -q.e - 4 >= 0 /\ -q.e - 3 <= 30
  THEN q.s * ((125 * q.m + Pow2(-q.e - 4)) \div Pow2(-q.e - 3))
  ELSE IF q.k = "fin" /\ -q.e - 3 > 30 THEN 0
  ELSE CastOutOfRange(build, q.k, q.s, 0, 32)

StaticCastInt32(q, build) ==
  IF q.k = "zero" THEN 0
  ELSE IF q.k # "fin" THEN CastOutOfRange(build, q.k, q.s, 0, 0)
  ELSE IF q.e >= 0
  THEN IF q.e >= 8 \/ q.m * Pow2(q.e) > INT32_MAX \div kMetersToMillimeters
       THEN CastOutOfRange(build, "fin", q.s, 125 * q.m, q.e + 3)
       ELSE q.s * q.m * Pow2(q.e) * kMetersToMillimeters
  ELSE IF -q.e <= 2
  THEN IF q.m > INT32_MAX \div (kMetersToMillimeters \div Pow2(-q.e))
       THEN CastOutOfRange(build, "fin", q.s, 125 * q.m, q.e + 3)
       ELSE q.s * q.m * (kMetersToMillimeters \div Pow2(-q.e))
  ELSE IF -q.e - 3 > 30 THEN 0
  ELSE q.s * ((125 * q.m) \div Pow2(-q.e - 3))

(***************************************************************************)
(* DepthFromDisparity: depth in meters of one disparity value.             *)
(***************************************************************************)
DepthFromDisparity(disparity_px, cal) ==
  F32Div(F32Mul(cal.baseline_meters, cal.focal_length_px), disparity_px)

(***************************************************************************)
(* Matrices: [rows, cols, type, data], data a function on the cells.       *)
(***************************************************************************)
Cells(rows, cols) == (0 .. rows - 1) \X (0 .. cols - 1)

Mat(rows, cols, type, data) ==
  [rows |-> rows, cols |-> cols, type |-> type, data |-> data]

SameSize(a, b) == a.rows = b.rows /\ a.cols = b.cols

\* cv::Mat1s(size, CV_16SC1): Mat_<short>(Size, const short& value), a
\* matrix of the given size with every element set to the value CV_16SC1.
NewMat1s(rows, cols) ==
  Mat(rows, cols, CV_16SC1, [c \in Cells(rows, cols) |-> CV_16SC1])

\* cv::Mat -> cv::Mat_<uint16_t> of a CV_16SC1 matrix at the call on line 57:
\* Mat::convertTo, element by element saturate_cast<ushort>(short).
SaturateCastU16(x) == IF x < 0 THEN 0 ELSE x

\* T disp = disparity.at<T>(i, j), passed as const float disparity_px.
DisparityAt(disparity, c) ==
  IF disparity.type = CV_32FC1 THEN disparity.data[c]
  ELSE F32FromInt(SaturateCastU16(disparity.data[c]))

(***************************************************************************)
(* The per-pixel body of DepthFromDisparityMap.                            *)
(***************************************************************************)
kMaxDepthMeters == 15
min_depth == 500

DepthMm(disparity, c, cal, build) ==
  StaticCastInt32(DepthFromDisparity(DisparityAt(disparity, c), cal), build)

\* Variant: the range check without its upper bound.
RangePolicyLowerOnly(depth_mm) ==
  IF depth_mm < min_depth THEN INT16_MAX ELSE depth_mm

\* Variant: the range check with an exclusive upper bound (>=).
RangePolicyExclusiveMax(depth_mm) ==
  IF depth_mm >= kMaxDepthMeters * kMetersToMillimeters \/ depth_mm < min_depth
  THEN INT16_MAX ELSE depth_mm

\* if (depth_mm > kMaxDepthMeters * kMetersToMillimeters || depth_mm < min_depth)
\*   depth_mm = std::numeric_limits<int16_t>::max();
RangePolicy(depth_mm) ==
  IF depth_mm > kMaxDepthMeters * kMetersToMillimeters \/ depth_mm < min_depth
  THEN INT16_MAX ELSE depth_mm

\* static_cast<int16_t>(int32_t): the low 16 bits.
NarrowInt16(x) == (((x % 65536) + 32768) % 65536) - 32768

\* Variant: a body that reads the output cell to the left of c.
PixelBodyNeighbour(out, disparity, c, cal, build) ==
  LET v == NarrowInt16(RangePolicy(DepthMm(disparity, c, cal, build)))
      left == <<c[1], c[2] - 1>>
  IN [out EXCEPT !.data[c] =
        IF c[2] > 0 /\ out.data[left] = INT16_MAX THEN INT16_MAX ELSE v]

\* out_depth after the body has run for cell c.
PixelBody(out, disparity, c, cal, build) ==
  [out EXCEPT !.data[c] =
     NarrowInt16(RangePolicy(DepthMm(disparity, c, cal, build)))]

\* The loop of DepthFromDisparityMap run in its row-major order from cell
\* number k on.
RECURSIVE RowMajorLoop(_, _, _, _, _)
RowMajorLoop(out, disparity, cal, build, k) ==
  IF k >= disparity.rows * disparity.cols THEN out
  ELSE RowMajorLoop(
         PixelBody(out, disparity, <<k \div disparity.cols, k % disparity.cols>>,
                   cal, build),
         disparity, cal, build, k + 1)

(***************************************************************************)
(* Inputs.  The stereo pair is represented by its size (DepthFromStereo    *)
(* only hands left and right to the estimator).  The estimator is any      *)
(* implementation of DisparityMapFromStereo: it may return any size, any   *)
(* element type and any values.  The values are drawn from the lists       *)
(* below; a field is a list laid over the cells from any of its positions  *)
(* on, or the first value of the list everywhere.                          *)
(***************************************************************************)
StereoCalibration(baseline_meters, focal_length_px) ==
  [baseline_meters |-> baseline_meters, focal_length_px |-> focal_length_px]

\* (0.54f, 720.0f) and (0.5f, 1500.0f)
Calibrations ==
  { StereoCalibration(F32Fin(1, 9059697, -24), F32FromInt(720)),
    StereoCalibration(F32Fin(1, 8388608, -24), F32FromInt(1500)) }

\* 50, 0, -3, 1500, 1501, 50.001667, 49.998333, 49.994999, 2^-126,
\* 1.7462262e-4, NaN
FloatDisparities ==
  << F32FromInt(50), F32Zero(1), F32FromInt(-3), F32FromInt(1500),
     F32FromInt(1501), F32Fin(1, 13107637, -18), F32Fin(1, 13106763, -18),
     F32Fin(1, 13105889, -18), F32Fin(1, 8388608, -149),
     F32Fin(1, 11999975, -36), F32NaN >>

Int16Disparities == << 50, 0, -1, 1500, 1501, 51, 49, 32767, -32768 >>

OtherTypeDisparities == << 50 >>

DepthValues == << 7000, -5, 0, 499, 20000, 32767 >>

Fields(vals, rows, cols) ==
  { [c \in Cells(rows, cols) |->
       vals[((k + c[1] * cols + c[2]) % Len(vals)) + 1]] :
    k \in 0 .. Len(vals) - 1 }
    \cup { [c \in Cells(rows, cols) |-> vals[1]] }

Sizes == (1 .. MaxRows) \X (1 .. MaxCols)

MatsOf(type, vals) ==
  UNION { { Mat(sz[1], sz[2], type, d) : d \in Fields(vals, sz[1], sz[2]) } :
          sz \in Sizes }

\* What DisparityMapFromStereo may write into out_disparity.
EstimatorDisparities ==
  MatsOf(CV_32FC1, FloatDisparities) \cup MatsOf(CV_16SC1, Int16Disparities)
    \cup MatsOf(CV_16UC1, OtherTypeDisparities)
    \cup MatsOf(CV_8UC1, OtherTypeDisparities)

\* What DisparityMapFromStereo may write into out_depth (a depth estimator).
EstimatorDepths == MatsOf(CV_16SC1, DepthValues)

InputSizes == { [rows |-> MaxRows, cols |-> MaxCols] }

\* The caller's out_depth before the call, and a local not yet written.
CallerBuffer == Mat(1, 1, CV_16SC1, [c \in Cells(1, 1) |-> 1234])
EmptyMat == Mat(0, 0, CV_8UC1, [c \in Cells(0, 0) |-> 0])

NoWrites(m) == [c \in Cells(m.rows, m.cols) |-> 0]

(***************************************************************************)
(* State.                                                                  *)
(***************************************************************************)
VARIABLES
  input_is_depth_,  \* the mode flag of the provider
  cast_build,       \* how the build converts an out-of-range double to int32_t
  left,             \* size of the stereo pair (left and right)
  calibration,      \* the StereoCalibration argument
  out_depth,        \* the caller's out parameter
  out_disparity,    \* the local of DepthFromStereo
  pc,               \* position in DepthFromStereo
  i, j,             \* the loop counters of DepthFromDisparityMap
  writes,           \* per cell of out_depth, stores by the pixel loop
  log,              \* what the call has done so far, in order
  entry,            \* out_depth and the mode flag when the call began
  est_result        \* what the estimator wrote in this call

vars == << input_is_depth_, cast_build, left, calibration, out_depth,
           out_disparity, pc, i, j, writes, log, entry, est_result >>

EntryOf(depth, mode) == [out_depth |-> depth, input_is_depth |-> mode]

Init ==
  /\ input_is_depth_ \in BOOLEAN
  /\ cast_build \in CastBuilds
  /\ left \in InputSizes
  /\ calibration \in Calibrations
  /\ out_depth = CallerBuffer
  /\ out_disparity = EmptyMat
  /\ pc = "idle"
  /\ i = 0
  /\ j = 0
  /\ writes = NoWrites(CallerBuffer)
  /\ log = << >>
  /\ entry = EntryOf(CallerBuffer, input_is_depth_)
  /\ est_result = EmptyMat

(***************************************************************************)
(* DepthFromStereo.                                                        *)
(***************************************************************************)
\* if(input_is_depth_)
Call ==
  /\ pc = "idle"
  /\ pc' = IF input_is_depth_ THEN "passthrough" ELSE "conversion"
  /\ UNCHANGED << input_is_depth_, cast_build, left, calibration, out_depth,
                  out_disparity, i, j, writes, log, entry, est_result >>

\* Variant: the range policy applied to the estimator's depth.
PassthroughClipped(m) ==
  [m EXCEPT !.data = [c \in DOMAIN m.data |-> RangePolicy(m.data[c])]]

\* DisparityMapFromStereo(left, right, out_depth): the estimator writes the
\* caller's buffer itself.
PassthroughResult(m) == m

\* Variant: the branch without its return, running on into line 46.
PassthroughFallThrough == "conversion"

\* return;
PassthroughReturn == "done"

Passthrough ==
  /\ pc = "passthrough"
  /\ \E m \in EstimatorDepths :
       /\ out_depth' = PassthroughResult(m)
       /\ est_result' = m
       /\ writes' = NoWrites(m)
  /\ log' = Append(log, "estimate")
  /\ pc' = PassthroughReturn
  /\ UNCHANGED << input_is_depth_, cast_build, left, calibration,
                  out_disparity, i, j, entry >>

\* cv::Mat out_disparity; DisparityMapFromStereo(left, right, out_disparity);
Estimate ==
  /\ pc = "conversion"
  /\ \E m \in EstimatorDisparities :
       /\ out_disparity' = m
       /\ est_result' = m
  /\ log' = Append(log, "estimate")
  /\ pc' = "estimated"
  /\ UNCHANGED << input_is_depth_, cast_build, left, calibration, out_depth,
                  i, j, writes, entry >>

\* out_depth = cv::Mat1s(out_disparity.size(), CV_16SC1);
Allocate ==
  /\ pc = "estimated"
  /\ out_depth' = NewMat1s(out_disparity.rows, out_disparity.cols)
  /\ writes' = NoWrites(out_disparity)
  /\ log' = Append(log, "alloc")
  /\ pc' = "allocated"
  /\ UNCHANGED << input_is_depth_, cast_build, left, calibration,
                  out_disparity, i, j, entry, est_result >>

SupportedType(type) == type = CV_32FC1 \/ type = CV_16SC1

\* The two supported branches: DepthFromDisparityMap<T> is entered, its
\* assert compares the disparity with the buffer just allocated from it.
DispatchConvert ==
  /\ pc = "allocated"
  /\ SupportedType(out_disparity.type)
  /\ log' = Append(log, "dispatch")
  /\ pc' = IF ~SameSize(out_disparity, out_depth) THEN "aborted"
           ELSE IF out_disparity.rows * out_disparity.cols = 0 THEN "done"
           ELSE "loop"
  /\ i' = 0
  /\ j' = 0
  /\ UNCHANGED << input_is_depth_, cast_build, left, calibration, out_depth,
                  out_disparity, writes, entry, est_result >>

\* else throw std::runtime_error(...)
DispatchThrow ==
  /\ pc = "allocated"
  /\ ~SupportedType(out_disparity.type)
  /\ log' = Append(log, "throw")
  /\ pc' = "thrown"
  /\ UNCHANGED << input_is_depth_, cast_build, left, calibration, out_depth,
                  out_disparity, i, j, writes, entry, est_result >>

\* One iteration of the loops of DepthFromDisparityMap, in program order.
PixelStep ==
  /\ pc = "loop"
  /\ out_depth' = PixelBody(out_depth, out_disparity, <<i, j>>, calibration,
                            cast_build)
  /\ writes' = [writes EXCEPT ![<<i, j>>] = @ + 1]
  /\ log' = Append(log, "write")
  /\ IF j + 1 < out_disparity.cols
     THEN i' = i /\ j' = j + 1 /\ pc' = "loop"
     ELSE IF i + 1 < out_disparity.rows
     THEN i' = i + 1 /\ j' = 0 /\ pc' = "loop"
     ELSE i' = i + 1 /\ j' = 0 /\ pc' = "done"
  /\ UNCHANGED << input_is_depth_, cast_build, left, calibration,
                  out_disparity, entry, est_result >>

\* One iteration of the same body for any cell not yet processed: the loop
\* run by per-pixel workers in an arbitrary order.
PixelStepAny ==
  /\ pc = "loop"
  /\ \E c \in DOMAIN writes :
       /\ writes[c] = 0
       /\ out_depth' = PixelBody(out_depth, out_disparity, c, calibration,
                                 cast_build)
       /\ writes' = [writes EXCEPT ![c] = @ + 1]
       /\ pc' = IF \A d \in DOMAIN writes : d = c \/ writes[d] > 0
                THEN "done" ELSE "loop"
  /\ log' = Append(log, "write")
  /\ UNCHANGED << input_is_depth_, cast_build, left, calibration,
                  out_disparity, i, j, entry, est_result >>

\* The caller makes the next call, with its own buffer, pair and calibration.
Reset ==
  /\ pc \in {"done", "thrown", "aborted"}
  /\ left' \in InputSizes
  /\ calibration' \in Calibrations
  /\ out_depth' = CallerBuffer
  /\ out_disparity' = EmptyMat
  /\ pc' = "idle"
  /\ i' = 0
  /\ j' = 0
  /\ writes' = NoWrites(CallerBuffer)
  /\ log' = << >>
  /\ entry' = EntryOf(CallerBuffer, input_is_depth_)
  /\ est_result' = EmptyMat
  /\ UNCHANGED << input_is_depth_, cast_build >>

Next ==
  \/ Call
  \/ Passthrough
  \/ Estimate
  \/ Allocate
  \/ DispatchConvert
  \/ DispatchThrow
  \/ PixelStep
  \/ Reset

Spec == Init /\ [][Next]_vars

NextAnyOrder ==
  \/ Call
  \/ Passthrough
  \/ Estimate
  \/ Allocate
  \/ DispatchConvert
  \/ DispatchThrow
  \/ PixelStepAny
  \/ Reset

SpecAnyOrder == Init /\ [][NextAnyOrder]_vars

(***************************************************************************)
(* Properties.                                                             *)
(***************************************************************************)
ConversionDone == pc = "done" /\ ~input_is_depth_

OutCells == Cells(out_depth.rows, out_depth.cols)

\* The element the estimator stored at c is zero or negative.
NonPositiveAt(c) ==
  IF out_disparity.type = CV_32FC1
  THEN \/ out_disparity.data[c].k = "zero"
       \/ out_disparity.data[c].k \in {"fin", "inf"} /\ out_disparity.data[c].s = -1
  ELSE out_disparity.data[c] <= 0

PositiveAt(c) ==
  IF out_disparity.type = CV_32FC1
  THEN out_disparity.data[c].k \in {"fin", "inf"} /\ out_disparity.data[c].s = 1
  ELSE out_disparity.data[c] > 0

\* The depth in meters the code computes for cell c.
MetersAt(c) == DepthFromDisparity(DisparityAt(out_disparity, c), calibration)

\* The 32-bit millimeter value before the range policy.
RawAt(c) == DepthMm(out_disparity, c, calibration, cast_build)

HalfMeter == F32Fin(1, 8388608, -24)

\* 1000 * q >= n, for a finite positive q and 1 <= n <= 32768.
MilliGeq(q, n) ==
  \/ q.e >= -3
  \/ /\ -q.e - 3 <= 30
     /\ (125 * q.m) \div Pow2(-q.e - 3) >= n

ValidDepth(v) == v >= min_depth /\ v <= kMaxDepthMeters * kMetersToMillimeters

\* C1: in conversion mode, when DepthFromStereo has returned, every element
\* of the output is a millimeter depth in [500, 15000] or the sentinel
\* INT16_MAX; nothing negative and nothing altered by the narrowing.
C1_DepthOrSentinel ==
  ConversionDone =>
    \A c \in OutCells : ValidDepth(out_depth.data[c]) \/ out_depth.data[c] = INT16_MAX

\* C1 witness: a finished conversion with one pixel holding a valid depth and
\* one whose 32-bit value lies outside the 16-bit range.
C1_Witness ==
  /\ ConversionDone
  /\ \E c \in OutCells : ValidDepth(out_depth.data[c])
  /\ \E c \in OutCells : RawAt(c) > INT16_MAX \/ RawAt(c) < -INT16_MAX - 1

\* q is not a depth in [0.5 m, 15 m], the range being taken on the
\* millimeter value as the range policy takes it: 1000 * q is not finite, or
\* is below 500, or is 15001 or more.
OutsideRange(q) ==
  \/ q.k # "fin"
  \/ q.s = -1
  \/ ~MilliGeq(q, 500)
  \/ MilliGeq(q, 15001)

\* C2 (as claimed): in conversion mode every pixel whose disparity is zero or
\* negative, or whose depth is outside [0.5 m, 15 m] (non-finite results and
\* millimeter values that do not fit 32 bits included) gets INT16_MAX.
C2_SentinelOutsideRange ==
  ConversionDone =>
    \A c \in OutCells :
      (NonPositiveAt(c) \/ OutsideRange(MetersAt(c)))
        => out_depth.data[c] = INT16_MAX

\* C3 (as claimed): a computed depth of exactly 15000 mm is replaced by the
\* sentinel, 14999 mm is retained.
C3_UpperBoundExclusive ==
  ConversionDone =>
    \A c \in OutCells :
      /\ RawAt(c) = 15000 => out_depth.data[c] = INT16_MAX
      /\ RawAt(c) = 14999 => out_depth.data[c] = 14999

\* C3 (amended): a computed depth of exactly 15000 mm is retained as 15000,
\* as is 14999 mm; 15001 mm is replaced by the sentinel.
C3_UpperBoundInclusive ==
  ConversionDone =>
    \A c \in OutCells :
      /\ RawAt(c) = 15000 => out_depth.data[c] = 15000
      /\ RawAt(c) = 14999 => out_depth.data[c] = 14999
      /\ RawAt(c) = 15001 => out_depth.data[c] = INT16_MAX

\* C3 witness: a finished conversion with pixels of 14999, 15000 and 15001 mm.
C3_Witness ==
  /\ ConversionDone
  /\ \E c \in OutCells : RawAt(c) = 14999
  /\ \E c \in OutCells : RawAt(c) = 15000
  /\ \E c \in OutCells : RawAt(c) = 15001

\* C4: in conversion mode, for a pixel of positive disparity whose millimeter
\* depth 1000 * q (q the depth in meters) truncates to an m in [500, 15000],
\* the stored value v is that m: v <= 1000 * q < v + 1.  A depth of exactly
\* 0.5 m is stored as 500, and uniform disparity 50 with baseline 0.54 and
\* focal length 720 gives 7776 everywhere.
C4_TruncatedMillimeters ==
  ConversionDone =>
    /\ \A c \in OutCells :
         LET q == MetersAt(c)
             v == out_depth.data[c]
         IN (PositiveAt(c) /\ q.k = "fin") =>
              /\ (MilliGeq(q, 500) /\ ~MilliGeq(q, 15001))
                   => (ValidDepth(v) /\ MilliGeq(q, v) /\ ~MilliGeq(q, v + 1))
              /\ q = HalfMeter => v = 500
    /\ ( /\ calibration = StereoCalibration(F32Fin(1, 9059697, -24), F32FromInt(720))
         /\ \A c \in OutCells : DisparityAt(out_disparity, c) = F32FromInt(50) )
       => \A c \in OutCells : out_depth.data[c] = 7776

\* C4 witness: the uniform field of disparity 50 converted with baseline
\* 0.54 and focal length 720, on more than one pixel.
C4_Witness ==
  /\ ConversionDone
  /\ calibration = StereoCalibration(F32Fin(1, 9059697, -24), F32FromInt(720))
  /\ out_depth.rows * out_depth.cols > 1
  /\ \A c \in OutCells : DisparityAt(out_disparity, c) = F32FromInt(50)
  /\ \A c \in OutCells : out_depth.data[c] = 7776

\* C5 (as claimed): when the disparity field has an unsupported element type
\* the error is raised with the caller's out_depth left as it was before the
\* call: not replaced, resized or written.
C5_ThrowLeavesOutputUntouched ==
  pc = "thrown" => out_depth = entry.out_depth

\* C6 (as claimed): the depth buffer returned has the width and height of the
\* stereo pair, in both modes, whatever the estimator.
C6_OutputHasInputSize ==
  pc = "done" => SameSize(out_depth, left)

\* C7 (as claimed): when the estimator returns a field whose size differs
\* from the stereo pair's, the call does not return a depth buffer.
C7_SizeMismatchIsFatal ==
  (pc = "done" /\ ~input_is_depth_) => SameSize(est_result, left)

\* C8: in passthrough mode the returned buffer is exactly what the estimator
\* wrote: no conversion, clipping, sentinel, dispatch or error.
C8_PassthroughUntouched ==
  input_is_depth_ =>
    /\ pc \in {"idle", "passthrough", "done"}
    /\ pc = "done" =>
         /\ out_depth = est_result
         /\ log = << "estimate" >>
         /\ \A c \in DOMAIN writes : writes[c] = 0

\* C8 witness: a passthrough call that returned a value outside [500, 15000]
\* other than the sentinel.
C8_Witness ==
  /\ input_is_depth_
  /\ pc = "done"
  /\ \E c \in OutCells :
       ~ValidDepth(out_depth.data[c]) /\ out_depth.data[c] # INT16_MAX

\* C9: in every call the estimator is invoked exactly once, and first: before
\* the output buffer is allocated, before the type check and before any
\* pixel is written; the call does not change the mode flag.
C9_EstimatorOnceAndFirst ==
  /\ input_is_depth_ = entry.input_is_depth
  /\ pc \in {"idle", "passthrough", "conversion"} => log = << >>
  /\ pc \notin {"idle", "passthrough", "conversion"} =>
       /\ Len(log) >= 1
       /\ log[1] = "estimate"
       /\ \A k \in 2 .. Len(log) : log[k] # "estimate"
  /\ pc = "estimated" => out_depth = entry.out_depth /\ log = << "estimate" >>

\* C9 witness: a finished conversion that allocated, dispatched and wrote
\* pixels after its one estimator call.
C9_Witness ==
  /\ ConversionDone
  /\ Len(log) >= 4
  /\ log[2] = "alloc"
  /\ log[3] = "dispatch"
  /\ log[4] = "write"

\* C10: with the pixels processed in any order, every cell is written at
\* most once, holds from then on the value the row-major loop gives it, and
\* at the end every cell has been written once: the final buffer is the one
\* of the sequential loop.
C10_OrderIndependent ==
  (pc \in {"loop", "done"} /\ ~input_is_depth_) =>
    LET seq == RowMajorLoop(NewMat1s(out_disparity.rows, out_disparity.cols),
                            out_disparity, calibration, cast_build, 0)
    IN /\ \A c \in OutCells :
            /\ writes[c] <= 1
            /\ writes[c] = 1 => out_depth.data[c] = seq.data[c]
            /\ writes[c] = 0 => out_depth.data[c] = CV_16SC1
       /\ pc = "done" => out_depth = seq /\ \A c \in OutCells : writes[c] = 1

\* C10 witness: a later cell has been processed while the first cell of the
\* row-major order has not.
C10_Witness ==
  /\ pc = "loop"
  /\ writes[<<0, 0>>] = 0
  /\ \E c \in OutCells : writes[c] = 1 /\ out_depth.data[c] # CV_16SC1

=============================================================================
